---- MODULE Spec2Model ----
(***************************************************************************)
(* Model of spikeinterface/curation/model_based_curation.py:               *)
(*   _load_model_from_folder, ModelBasedClassification (__init__,          *)
(*   predict_labels, _get_metrics_for_classification,                      *)
(*   _check_params_for_classification, _export_to_phy) and auto_label_units.*)
(* The program is sequential: one call runs from "idle" to "returned" or   *)
(* "raised".  pc is the position inside the running call.                  *)
(***************************************************************************)
EXTENDS Integers, Sequences, FiniteSets, TLC

\* ------------------------------------------------------------------ bounds
MaxUnits == 2      \* unit identifiers are 1..MaxUnits
MaxLabel == 2      \* the pipeline's classes are 0..MaxLabel

Units  == 1..MaxUnits
Labels == 0..MaxLabel

\* ---------------------------------------------------------- python values
\* Python objects of differing type are kept apart by a tag.
PyInt(n) == <<"int", n>>
PyStr(s) == <<"str", s>>

Range(s) == {s[i] : i \in DOMAIN s}

RECURSIVE SeqMax(_)
SeqMax(s) ==
    IF Len(s) = 1 THEN s[1]
    ELSE LET m == SeqMax(Tail(s)) IN IF s[1] >= m THEN s[1] ELSE m

\* A python dict is a set of <<key, value>> pairs with at most one pair per key.
EmptyDict == {}
Keys(d) == {p[1] : p \in d}
Lookup(d, k) == (CHOOSE p \in d : p[1] = k)[2]
Put(d, k, v) == {p \in d : p[1] # k} \cup {<<k, v>>}

\* label_conversion as a python value: None or a dict.
NoneConversion == [kind |-> "None", dict |-> EmptyDict]
DictConversion(d) == [kind |-> "dict", dict |-> d]

LabelName(l) == IF l = 0 THEN "noise" ELSE IF l = 1 THEN "good" ELSE "mua"

\* ------------------------------------------------------------------ tables
\* A pandas DataFrame: its index (unit ids, in row order), its columns (in
\* order), one cell value per row (shared by the row's columns) and a dtype.
NoneTable == [kind |-> "None", index |-> <<>>, columns |-> <<>>, values |-> <<>>, dtype |-> "none"]
NotADataFrame == [kind |-> "ndarray", index |-> <<>>, columns |-> <<>>, values |-> <<>>, dtype |-> "float64"]
DataFrame(idx, cols, vals) ==
    [kind |-> "DataFrame", index |-> idx, columns |-> cols, values |-> vals, dtype |-> "float64"]


\* lines 96-97: infinite cells become NaN, then the table is cast to float32.
SanitizeCell(x) == IF x = "inf" THEN "nan" ELSE x
Sanitize(t) ==
    [t EXCEPT !.values = [i \in DOMAIN t.values |-> SanitizeCell(t.values[i])],
              !.dtype = "float32"]

\* pd.concat([quality_metrics, template_metrics], axis=1) (line 134) of two
\* tables over the same index: the columns of the first, then of the second.
Concat(idx, qcols, tcols, vals) == DataFrame(idx, qcols \o tcols, vals)

\* calculated_metrics.loc[index.isin(unit_ids)] (lines 137-139): the rows whose
\* unit is a current unit of the sorting, in their order.
RECURSIVE KeptRows(_, _, _)
KeptRows(idx, unit_ids, i) ==
    IF i > Len(idx) THEN <<>>
    ELSE (IF idx[i] \in unit_ids THEN <<i>> ELSE <<>>) \o KeptRows(idx, unit_ids, i + 1)

RestrictToUnits(t, unit_ids) ==
    LET keep == KeptRows(t.index, unit_ids, 1)
    IN  [t EXCEPT !.index  = [k \in DOMAIN keep |-> t.index[keep[k]]],
                  !.values = [k \in DOMAIN keep |-> t.values[keep[k]]]]

\* A variant of line 150 with the operands of the difference exchanged.
MissingMetricsReversed(required, columns) == Range(columns) \ Range(required)

\* required_metrics.difference(calculated_metrics) (line 150).
MissingMetrics(required, columns) == Range(required) \ Range(columns)

\* A variant of line 146 that keeps the table as it was merged.
SelectColumnsAsMerged(t, required) == t

\* calculated_metrics[self.required_metrics] (line 146): the required columns,
\* in the order of required_metrics.
SelectColumns(t, required) == [t EXCEPT !.columns = required]

NoError == [type |-> "None", text |-> "", detail |-> {}]
Raise(type, text) == [type |-> type, text |-> text, detail |-> {}]

NoUnitsText == "No units present in sorting data"
MissingMetricsText == "Input data does not contain all required metrics for classification"
NotDataFrameText == "Input data must be a pandas DataFrame"
LabelMismatchText == "Labels in predictions do not match those in label_conversion"
PhyFolderText == "Phy folder not found in sorting annotations, or is not a directory"
NotPipelineText == "The pipeline must be an instance of sklearn.pipeline.Pipeline"

\* _get_metrics_for_classification (lines 126-153): the restricted table it
\* computes, and either the table it returns or the error it raises.
GetMetricsForClassification(idx, qcols, tcols, vals, unit_ids, required) ==
    LET calculated == RestrictToUnits(Concat(idx, qcols, tcols, vals), unit_ids)
    IN  IF Len(calculated.index) = 0
        THEN [calculated |-> calculated, error |-> Raise("ValueError", NoUnitsText),
              table |-> NoneTable]
        ELSE IF Range(required) \subseteq Range(calculated.columns)
        THEN [calculated |-> calculated, error |-> NoError,
              table |-> SelectColumns(calculated, required)]
        ELSE [calculated |-> calculated,
              error |-> [type |-> "ValueError", text |-> MissingMetricsText,
                         detail |-> MissingMetrics(required, calculated.columns)],
              table |-> NoneTable]

\* ---------------------------------------------------------------- metadata
\* json text of the integers, and int(key) of line 91.
Numeral(l) == <<"0", "1", "2", "3", "4", "5">>[l + 1]
IsIntString(s) == \E l \in 0..5 : Numeral(l) = s
IntOf(s) == CHOOSE l \in 0..5 : Numeral(l) = s

\* Metric parameters: json.load gives lists; an extension may hold tuples.
Param(shape, val) == [shape |-> shape, val |-> val]
\* json.dumps (line 176) writes a tuple as it writes a list.
JsonDumps(p) == Param("list", p.val)

NoneExt == [kind |-> "None", params |-> Param("list", 0)]
Ext(p) == [kind |-> "ext", params |-> p]
QualityExts  == {NoneExt, Ext(Param("tuple", 1)), Ext(Param("list", 2))}
TemplateExts == {NoneExt, Ext(Param("list", 1)), Ext(Param("tuple", 1))}

\* The "label_conversion" entry of model_info.json: absent, a value that is no
\* mapping, or a mapping given by its items in file order.
LcAbsent  == [kind |-> "absent", items |-> <<>>]
LcNotDict == [kind |-> "str", items |-> <<>>]
LcDict(items) == [kind |-> "dict", items |-> items]
LcEntries ==
    { LcAbsent, LcNotDict,
      LcDict([i \in 1..(MaxLabel + 1) |-> <<Numeral(i - 1), PyStr(LabelName(i - 1))>>]),
      LcDict(<< <<"0", PyStr("noise")>>, <<"x", PyStr("good")>> >>),
      LcDict(<< <<"x", PyStr("noise")>>, <<"0", PyStr("good")>> >>) }

MpAbsent == [kind |-> "absent", qm_params |-> Param("list", 0), metrics_kwargs |-> Param("list", 0)]
MpEntries ==
    { MpAbsent,
      [kind |-> "present", qm_params |-> Param("list", 1), metrics_kwargs |-> Param("list", 1)] }

NoneInfo == [kind |-> "None", label_conversion |-> LcAbsent, metric_params |-> MpAbsent]
DictInfos == [kind : {"dict"}, label_conversion : LcEntries, metric_params : MpEntries]
PipelineInfos == {NoneInfo} \cup DictInfos

\* lines 86-93: the value of label_conversion after the try block, and
\* whether the except clause warned.
RECURSIVE ConvertItems(_, _)
ConvertItems(items, acc) ==
    IF items = <<>> THEN [dict |-> acc, ok |-> TRUE]
    ELSE IF ~IsIntString(items[1][1]) THEN [dict |-> acc, ok |-> FALSE]
    ELSE ConvertItems(Tail(items), Put(acc, PyInt(IntOf(items[1][1])), items[1][2]))

DefaultLabelConversion(info) ==
    LET e == info.label_conversion
    IN  IF e.kind = "absent" THEN [value |-> NoneConversion, warned |-> TRUE]
        ELSE IF e.kind # "dict" THEN [value |-> DictConversion(EmptyDict), warned |-> TRUE]
        ELSE LET r == ConvertItems(e.items, EmptyDict)
             IN  [value |-> DictConversion(r.dict), warned |-> ~r.ok]

\* warnings: each message is the sequence of the pieces of its text.
LabelConversionWarning == <<"Could not find label_conversion key in pipeline_info.json file">>
QualityParamsWarning == <<"Quality metrics params do not match those used to train pipeline. Check these in the 'pipeline_info.json' file.">>
TemplateParamsWarning == <<"Template metrics metrics params do not match those used to train pipeline. Check these in the 'model_info.json' file.">>
NoModelInfoWarning == <<"No 'model_info.json' file found in folder. No metadata can be checked.">>
\* lines 292-294: the text is a plain string, not an f-string: the braces stay.
MultipleFilesWarning(folder, chosen) ==
    <<"There are more than 1 '.skops' file in folder ", "{folder}", ". Selecting ",
      "{skops_file}", ". You can specify the file using the 'model_name' argument.">>

\* _check_params_for_classification (lines 155-191): the error it raises (a
\* KeyError of the metadata lookup) or the warnings it emits.
CheckParamsForClassification(info, qext, text) ==
    LET mp == info.metric_params
        qwarn == IF qext.kind # "None" /\ mp.kind = "present"
                    /\ JsonDumps(qext.params) # JsonDumps(mp.qm_params)
                 THEN <<QualityParamsWarning>> ELSE <<>>
        twarn == IF text.kind # "None" /\ mp.kind = "present"
                    /\ text.params # mp.metrics_kwargs
                 THEN <<TemplateParamsWarning>> ELSE <<>>
    IN  IF qext.kind # "None" /\ mp.kind = "absent"
        THEN [error |-> Raise("KeyError", "metric_params"), warned |-> <<>>]
        ELSE IF text.kind # "None" /\ mp.kind = "absent"
        THEN [error |-> Raise("KeyError", "metric_params"), warned |-> qwarn]
        ELSE [error |-> NoError, warned |-> qwarn \o twarn]

\* ------------------------------------------------------------- prediction
\* A variant of the test of line 106: some predicted label is a key.
LabelsCoveredAny(preds, d) == preds = <<>> \/ Range(preds) \cap Keys(d) # {}

\* line 106: set(predictions).issubset(label_conversion.keys()).
LabelsCovered(preds, d) == Range(preds) \subseteq Keys(d)

\* A variant of line 109 that walks the predictions from the last to the first.
ConvertLabelsReversed(preds, d) ==
    [i \in DOMAIN preds |-> Lookup(d, preds[Len(preds) + 1 - i])]

\* line 109: [label_conversion[label] for label in predictions].
ConvertLabels(preds, d) == [i \in DOMAIN preds |-> Lookup(d, preds[i])]

\* line 102: np.max(probabilities, axis=1).
Confidence(proba) == [i \in DOMAIN proba |-> SeqMax(proba[i])]

\* lines 112-115: the dict built from zip(index, predictions, probabilities),
\* as its items in insertion order (the index holds each unit once).
Min(a, b) == IF a <= b THEN a ELSE b
ClassifiedUnits(idx, preds, probs) ==
    [i \in 1..Min(Len(idx), Min(Len(preds), Len(probs))) |-> <<idx[i], preds[i], probs[i]>>]

\* What predict_proba may return for a table of n rows (percent per class).
ProbaMatrices(n) ==
    { [i \in 1..n |-> <<90, 10, 0>>],
      [i \in 1..n |-> IF i % 2 = 1 THEN <<20, 30, 50>> ELSE <<90, 10, 0>>] }

\* ------------------------------------------------------------- file system
Directories == {"models", "phy"}
IsDir(p) == p \in Directories
\* A variant of lines 203-205 without the is_dir assertion.
PhyFolderSet(ann) == ann # "None"

\* lines 203-205: the annotation is set and names a directory.
PhyFolderOk(ann) == ann # "None" /\ IsDir(ann)
PhyAnnotations == {"None", "phy", "missing"}


\* What skio.load gives for a file of the model folder: a fitted Pipeline with
\* its feature_names_in_, or some other object.
Pipeline(required) == [is_pipeline |-> TRUE, feature_names_in_ |-> required]
NotAPipeline == [is_pipeline |-> FALSE, feature_names_in_ |-> <<>>]
Artifact(file) ==
    IF file = "m1.skops" THEN Pipeline(<<"snr", "firing_rate">>)
    ELSE IF file = "m2.skops" THEN Pipeline(<<"half_width", "snr">>)
    ELSE NotAPipeline
\* folder.glob("*.skops") (line 289), in the order the file system lists them.
SkopsListings ==
    { <<>>, <<"m1.skops">>, <<"m1.skops", "m2.skops">>, <<"m2.skops", "m1.skops">>,
      <<"obj.skops">> }
\* model_info.json: missing, or one of the metadata records.
NoInfoFile == [kind |-> "nofile", label_conversion |-> LcAbsent, metric_params |-> MpAbsent]
InfoFiles == {NoInfoFile} \cup DictInfos

FolderArgs == {"None", "models", "missing"}
ModelNameArgs == {"None", "m1.skops", "m3.skops"}

\* The analyzer's metric tables; quality and template metrics have different
\* names, so the merged table holds each column name once.
QualityColumns == {<<"snr", "firing_rate">>, <<"firing_rate", "snr">>, <<"snr">>}
TemplateColumns == {<<>>, <<"half_width">>}
\* Row orders of a metrics table: the units 1..n in order, or all units reversed.
IndexSeqs ==
    {[i \in 1..n |-> i] : n \in 0..MaxUnits} \cup {[i \in 1..MaxUnits |-> MaxUnits + 1 - i]}
\* The cell values of a table: the first row holds an infinite value.
RowValues(idx) == [i \in DOMAIN idx |-> IF i = 1 THEN "inf" ELSE "1.5"]

\* Tables a caller may pass as input_data.
CallerColumns ==
    {<<"snr", "firing_rate">>, <<"firing_rate", "snr">>, <<"snr", "firing_rate", "amplitude">>}
CallerTables == {DataFrame(idx, cols, RowValues(idx)) : idx \in IndexSeqs, cols \in CallerColumns}
InputDataArgs == {NoneTable, NotADataFrame} \cup CallerTables

\* Explicit label_conversion arguments.
ExplicitConversions ==
    { NoneConversion,
      DictConversion({<<PyInt(0), PyStr("noise")>>, <<PyInt(1), PyStr("good")>>}) }

NoArgs ==
    [model_folder_path |-> "None", model_name |-> "None", label_conversion |-> NoneConversion,
     input_data |-> NoneTable, export_to_phy |-> FALSE, pipeline_info |-> NoneInfo]

\* A sorting property: unset, or the array set_property stored.
Unset == [set |-> FALSE, values |-> <<>>]
Property(values) == [set |-> TRUE, values |-> values]

NoResult == [kind |-> "None", items |-> <<>>]

\* The file _export_to_phy writes (line 209).
PhyFile(dir, units) ==
    [path |-> <<dir, "cluster_prediction.tsv">>, sep |-> "\t",
     header |-> <<"cluster_id", "prediction", "probability">>, rows |-> units]

\* ---------------------------------------------------------------- the world
\* What a call reads from outside: the model folder, the analyzer and the
\* sorting's annotation.  auto_label_units fixes all of it as its call starts
\* (its contract relates the folder to the analyzer); the other entry points
\* read each piece where the code reads it.
Unobserved ==
    [observed |-> FALSE, skops_files |-> <<>>, info_file |-> NoInfoFile,
     index |-> <<>>, quality_columns |-> <<>>, template_columns |-> <<>>, values |-> <<>>,
     unit_ids |-> {}, quality_ext |-> NoneExt, template_ext |-> NoneExt, phy_folder |-> "None"]
Worlds ==
    { [observed |-> TRUE, skops_files |-> ls, info_file |-> f,
       index |-> idx, quality_columns |-> qc, template_columns |-> <<"half_width">>,
       values |-> RowValues(idx), unit_ids |-> Units,
       quality_ext |-> Ext(Param("list", 1)), template_ext |-> Ext(Param("list", 1)),
       phy_folder |-> ann] :
      ls \in SkopsListings,
      f \in {NoInfoFile,
             [kind |-> "dict", label_conversion |-> LcAbsent, metric_params |-> MpAbsent],
             [kind |-> "dict",
              label_conversion |-> LcDict([i \in 1..(MaxLabel + 1) |->
                                             <<Numeral(i - 1), PyStr(LabelName(i - 1))>>]),
              metric_params |-> [kind |-> "present", qm_params |-> Param("list", 1),
                                 metrics_kwargs |-> Param("list", 1)]]},
      idx \in {<<>>, [i \in 1..MaxUnits |-> i]},
      qc \in {<<"snr">>, <<"snr", "firing_rate">>},
      ann \in PhyAnnotations }

VARIABLES
    pc,                  \* position in the running call
    entry,               \* the public operation that was called
    args,                \* the arguments of the running call
    world,               \* what the call has fixed of the outside
    skops_files,         \* _load_model_from_folder: the '.skops' files found
    skops_file,          \* _load_model_from_folder: the file chosen
    model,               \* the object skio.load returned / the pipeline argument
    model_info,          \* the metadata json.load returned, or None
    pipeline,            \* self.pipeline with self.required_metrics
    calculated_metrics,  \* _get_metrics_for_classification: the restricted table
    input_data,          \* predict_labels: the metrics table
    label_conversion,    \* predict_labels: the mapping in effect
    pipeline_calls,      \* the calls made to the pipeline: operation, table, output
    predictions,         \* predict_labels: the labels
    probabilities,       \* predict_labels: the confidences
    classified_units,    \* predict_labels: the dict built at lines 112-115
    sorting_path,        \* _export_to_phy: the annotation read
    label_prediction,    \* the sorting's "label_prediction" property
    label_confidence,    \* the sorting's "label_confidence" property
    old_properties,      \* the two properties as they were before the call
    files,               \* the files written
    warnings,            \* the warnings emitted, in order
    error,               \* the exception that ended the call
    result               \* the value the call returned

vars ==
    <<pc, entry, args, world, skops_files, skops_file, model, model_info, pipeline, calculated_metrics,
      input_data, label_conversion, pipeline_calls, predictions, probabilities,
      classified_units, sorting_path, label_prediction, label_confidence, old_properties,
      files, warnings, error, result>>

loadVars == <<skops_files, skops_file, model, model_info>>
predictVars ==
    <<calculated_metrics, input_data, label_conversion, pipeline_calls, predictions,
      probabilities, classified_units, sorting_path>>
sortingVars == <<label_prediction, label_confidence, old_properties, files>>

OldLabels == Property(<<PyStr("good")>>)
OldConfidence == Property(<<75>>)

Init ==
    /\ pc = "idle"
    /\ entry = "none"
    /\ args = NoArgs
    /\ world = Unobserved
    /\ skops_files = <<>>
    /\ skops_file = "None"
    /\ model = NotAPipeline
    /\ model_info = NoneInfo
    /\ pipeline = NotAPipeline
    /\ calculated_metrics = NoneTable
    /\ input_data = NoneTable
    /\ label_conversion = NoneConversion
    /\ pipeline_calls = <<>>
    /\ predictions = <<>>
    /\ probabilities = <<>>
    /\ classified_units = <<>>
    /\ sorting_path = "None"
    /\ \E p \in {<<Unset, Unset>>, <<OldLabels, OldConfidence>>} :
          /\ label_prediction = p[1]
          /\ label_confidence = p[2]
          /\ old_properties = p
    /\ files = {}
    /\ warnings = <<>>
    /\ error = NoError
    /\ result = NoResult

\* What each read of the outside may give.
ReadSkopsFiles == IF world.observed THEN {world.skops_files} ELSE SkopsListings
ReadInfoFile == IF world.observed THEN {world.info_file} ELSE InfoFiles
ReadQualityExt == IF world.observed THEN {world.quality_ext} ELSE QualityExts
ReadTemplateExt == IF world.observed THEN {world.template_ext} ELSE TemplateExts
ReadPhyFolder == IF world.observed THEN {world.phy_folder} ELSE PhyAnnotations
ReadMetrics ==
    IF world.observed
    THEN {[index |-> world.index, quality_columns |-> world.quality_columns,
           template_columns |-> world.template_columns, values |-> world.values,
           unit_ids |-> world.unit_ids]}
    ELSE UNION { [index : {idx}, quality_columns : QualityColumns,
                  template_columns : TemplateColumns, values : {RowValues(idx)},
                  unit_ids : SUBSET Units] : idx \in IndexSeqs }

\* The call ends with an exception.
Raised(e) == pc' = "raised" /\ error' = e


\* ------------------------------------------------- _load_model_from_folder
\* The parameters of _load_model_from_folder (line 262) and the keywords
\* auto_label_units passes to it (line 248).
LoadModelParams == {"model_folder_path", "model_name"}
AutoLabelKeywords == {"folder"}
\* A python call binds its keyword arguments to parameters of those names.
BindsKeywords(keywords, params) == keywords \subseteq params

\* A direct call of _load_model_from_folder(model_folder_path, model_name).
CallLoadModelFromFolder ==
    /\ pc = "idle"
    /\ \E f \in FolderArgs, n \in ModelNameArgs :
          args' = [NoArgs EXCEPT !.model_folder_path = f, !.model_name = n]
    /\ entry' = "_load_model_from_folder"
    /\ pc' = "load_folder"
    /\ UNCHANGED <<world, loadVars, pipeline, predictVars, sortingVars, warnings, error, result>>

\* auto_label_units up to its call of the loader (lines 246-248).
CallAutoLabelUnits ==
    /\ pc = "idle"
    /\ \E w \in Worlds, f \in FolderArgs, lc \in ExplicitConversions, ex \in BOOLEAN :
          /\ world' = w
          /\ args' = [NoArgs EXCEPT !.model_folder_path = f, !.label_conversion = lc,
                                    !.export_to_phy = ex]
    /\ entry' = "auto_label_units"
    /\ IF BindsKeywords(AutoLabelKeywords, LoadModelParams)
       THEN pc' = "load_folder" /\ error' = error
       ELSE Raised(Raise("TypeError", "got an unexpected keyword argument 'folder'"))
    /\ UNCHANGED <<loadVars, pipeline, predictVars, sortingVars, warnings, result>>

\* lines 281-282: Path(model_folder_path) and the is_dir assertion.
LoadFolder ==
    /\ pc = "load_folder"
    /\ IF args.model_folder_path = "None"
       THEN Raised(Raise("TypeError", "expected str, bytes or os.PathLike object, not NoneType"))
       ELSE IF ~IsDir(args.model_folder_path)
       THEN Raised(Raise("AssertionError", "The folder does not exist."))
       ELSE pc' = "load_select" /\ error' = error
    /\ UNCHANGED <<entry, args, world, loadVars, pipeline, predictVars, sortingVars, warnings,
                   result>>

\* lines 284-296: the named file, or the first '.skops' file of the folder.
LoadSelectFile ==
    /\ pc = "load_select"
    /\ \E listing \in ReadSkopsFiles :
          IF args.model_name # "None"
          THEN IF args.model_name \in Range(listing)
               THEN /\ skops_file' = args.model_name
                    /\ pc' = "load_read"
                    /\ UNCHANGED <<skops_files, warnings, error>>
               ELSE /\ Raised(Raise("AssertionError", "Model file not found."))
                    /\ UNCHANGED <<skops_files, skops_file, warnings>>
          ELSE /\ skops_files' = listing
               /\ IF listing = <<>>
                  THEN /\ Raised(Raise("AssertionError", "There are no '.skops' files in the folder"))
                       /\ UNCHANGED <<skops_file, warnings>>
                  ELSE /\ warnings' = IF Len(listing) > 1
                                      THEN Append(warnings,
                                                  MultipleFilesWarning(args.model_folder_path,
                                                                       listing[1]))
                                      ELSE warnings
                       /\ skops_file' = listing[1]
                       /\ pc' = "load_read"
                       /\ error' = error
    /\ UNCHANGED <<entry, args, world, model, model_info, pipeline, predictVars, sortingVars,
                   result>>

\* lines 298-307: load the model and the metadata, and return both; in
\* auto_label_units the call goes on at line 250.
LoadRead ==
    /\ pc = "load_read"
    /\ model' = Artifact(skops_file)
    /\ \E f \in ReadInfoFile :
          IF f.kind = "nofile"
          THEN /\ warnings' = Append(warnings, NoModelInfoWarning)
               /\ model_info' = NoneInfo
          ELSE /\ warnings' = warnings
               /\ model_info' = f
    /\ IF entry = "auto_label_units"
       THEN pc' = "init" /\ result' = result
       ELSE pc' = "returned" /\ result' = [kind |-> "tuple", items |-> <<>>]
    /\ UNCHANGED <<entry, args, world, skops_files, skops_file, pipeline, predictVars,
                   sortingVars, error>>

\* ------------------------------------------------ ModelBasedClassification
RequiredMetrics == {<<"snr", "firing_rate">>, <<"half_width", "snr">>}

\* A direct call of ModelBasedClassification(sorting_analyzer, pipeline).
CallConstruct ==
    /\ pc = "idle"
    /\ model' \in {NotAPipeline} \cup {Pipeline(r) : r \in RequiredMetrics}
    /\ entry' = "ModelBasedClassification"
    /\ pc' = "init"
    /\ UNCHANGED <<args, world, skops_files, skops_file, model_info, pipeline, predictVars,
                   sortingVars, warnings, error, result>>

\* __init__ (lines 43-48); auto_label_units makes the same test at lines
\* 250-251, constructs the object and calls predict_labels (lines 253-257).
Construct ==
    /\ pc = "init"
    /\ IF ~model.is_pipeline
       THEN /\ Raised(Raise("ValueError", NotPipelineText))
            /\ UNCHANGED <<args, pipeline, label_conversion>>
       ELSE /\ pipeline' = model
            /\ error' = error
            /\ IF entry = "auto_label_units"
               THEN /\ args' = [args EXCEPT !.pipeline_info = model_info]
                    /\ label_conversion' = args.label_conversion
                    /\ pc' = "get_input"
               ELSE /\ pc' = "ready"
                    /\ UNCHANGED <<args, label_conversion>>
    /\ UNCHANGED <<entry, world, loadVars, calculated_metrics, input_data, pipeline_calls,
                   predictions, probabilities, classified_units, sorting_path, sortingVars,
                   warnings, result>>

\* A direct call of predict_labels(label_conversion, input_data, export_to_phy,
\* pipeline_info).
CallPredictLabels ==
    /\ pc = "ready"
    /\ \E lc \in ExplicitConversions, t \in InputDataArgs, ex \in BOOLEAN, info \in PipelineInfos :
          /\ args' = [NoArgs EXCEPT !.label_conversion = lc, !.input_data = t,
                                    !.export_to_phy = ex, !.pipeline_info = info]
          /\ label_conversion' = lc
    /\ pc' = "get_input"
    /\ UNCHANGED <<entry, world, loadVars, pipeline, calculated_metrics, input_data,
                   pipeline_calls, predictions, probabilities, classified_units, sorting_path,
                   sortingVars, warnings, error, result>>

\* lines 76-80, with _get_metrics_for_classification (lines 126-153).
GetInput ==
    /\ pc = "get_input"
    /\ IF args.input_data.kind = "None"
       THEN \E m \in ReadMetrics :
               LET r == GetMetricsForClassification(m.index, m.quality_columns,
                                                    m.template_columns, m.values, m.unit_ids,
                                                    pipeline.feature_names_in_)
               IN  /\ calculated_metrics' = r.calculated
                   /\ IF r.error.type = "None"
                      THEN input_data' = r.table /\ pc' = "check_params" /\ error' = error
                      ELSE input_data' = input_data /\ Raised(r.error)
       ELSE /\ calculated_metrics' = calculated_metrics
            /\ IF args.input_data.kind # "DataFrame"
               THEN input_data' = input_data /\ Raised(Raise("ValueError", NotDataFrameText))
               ELSE input_data' = args.input_data /\ pc' = "check_params" /\ error' = error
    /\ UNCHANGED <<entry, args, world, loadVars, pipeline, label_conversion, pipeline_calls,
                   predictions, probabilities, classified_units, sorting_path, sortingVars,
                   warnings, result>>

\* lines 82-83, with _check_params_for_classification (lines 155-191).
CheckParams ==
    /\ pc = "check_params"
    /\ IF args.pipeline_info.kind = "None"
       THEN pc' = "default_conversion" /\ UNCHANGED <<warnings, error>>
       ELSE \E qext \in ReadQualityExt, text \in ReadTemplateExt :
               LET r == CheckParamsForClassification(args.pipeline_info, qext, text)
               IN  /\ warnings' = warnings \o r.warned
                   /\ IF r.error.type = "None"
                      THEN pc' = "default_conversion" /\ error' = error
                      ELSE Raised(r.error)
    /\ UNCHANGED <<entry, args, world, loadVars, pipeline, predictVars, sortingVars, result>>

\* lines 85-93: the default conversion taken from the metadata.
DefaultConversion ==
    /\ pc = "default_conversion"
    /\ IF args.pipeline_info.kind # "None" /\ label_conversion.kind = "None"
       THEN LET r == DefaultLabelConversion(args.pipeline_info)
            IN  /\ label_conversion' = r.value
                /\ warnings' = IF r.warned THEN Append(warnings, LabelConversionWarning)
                               ELSE warnings
       ELSE UNCHANGED <<label_conversion, warnings>>
    /\ pc' = "predict"
    /\ UNCHANGED <<entry, args, world, loadVars, pipeline, calculated_metrics, input_data,
                   pipeline_calls, predictions, probabilities, classified_units, sorting_path,
                   sortingVars, error, result>>

\* lines 96-102: sanitize the table, call predict and predict_proba on it.
Predict ==
    /\ pc = "predict"
    /\ input_data' = Sanitize(input_data)
    /\ \E preds \in [DOMAIN input_data.index -> {PyInt(l) : l \in Labels}],
          proba \in ProbaMatrices(Len(input_data.index)) :
          /\ predictions' = preds
          /\ probabilities' = Confidence(proba)
          /\ pipeline_calls' =
                <<[op |-> "predict", X |-> input_data', out |-> preds],
                  [op |-> "predict_proba", X |-> input_data', out |-> proba]>>
    /\ pc' = "convert"
    /\ UNCHANGED <<entry, args, world, loadVars, pipeline, calculated_metrics, label_conversion,
                   classified_units, sorting_path, sortingVars, warnings, error, result>>

\* lines 104-109: check the predicted labels against the mapping, then
\* substitute them (a label that is no key of the dict is a KeyError).
Convert ==
    /\ pc = "convert"
    /\ IF label_conversion.kind = "dict"
       THEN IF ~LabelsCovered(predictions, label_conversion.dict)
            THEN Raised(Raise("ValueError", LabelMismatchText)) /\ predictions' = predictions
            ELSE IF ~(Range(predictions) \subseteq Keys(label_conversion.dict))
            THEN Raised(Raise("KeyError", "label")) /\ predictions' = predictions
            ELSE /\ predictions' = ConvertLabels(predictions, label_conversion.dict)
                 /\ pc' = "set_properties"
                 /\ error' = error
       ELSE pc' = "set_properties" /\ UNCHANGED <<predictions, error>>
    /\ UNCHANGED <<entry, args, world, loadVars, pipeline, calculated_metrics, input_data,
                   label_conversion, pipeline_calls, probabilities, classified_units,
                   sorting_path, sortingVars, warnings, result>>

\* A variant of lines 112-122 that sets the properties only after the export.
SetPropertiesAfterExport ==
    /\ pc = "set_properties"
    /\ classified_units' = ClassifiedUnits(input_data.index, predictions, probabilities)
    /\ label_prediction' = IF args.export_to_phy THEN label_prediction ELSE Property(predictions)
    /\ label_confidence' = IF args.export_to_phy THEN label_confidence ELSE Property(probabilities)
    /\ pc' = IF args.export_to_phy THEN "export" ELSE "return"
    /\ UNCHANGED <<entry, args, world, loadVars, pipeline, calculated_metrics, input_data,
                   label_conversion, pipeline_calls, predictions, probabilities, sorting_path,
                   old_properties, files, warnings, error, result>>

\* lines 112-119: build the result dict and set the two sorting properties.
SetProperties ==
    /\ pc = "set_properties"
    /\ classified_units' = ClassifiedUnits(input_data.index, predictions, probabilities)
    /\ label_prediction' = Property(predictions)
    /\ label_confidence' = Property(probabilities)
    /\ pc' = IF args.export_to_phy THEN "export" ELSE "return"
    /\ UNCHANGED <<entry, args, world, loadVars, pipeline, calculated_metrics, input_data,
                   label_conversion, pipeline_calls, predictions, probabilities, sorting_path,
                   old_properties, files, warnings, error, result>>

\* lines 121-122, with _export_to_phy (lines 193-209).
ExportToPhy ==
    /\ pc = "export"
    /\ \E ann \in ReadPhyFolder :
          /\ sorting_path' = ann
          /\ IF PhyFolderOk(ann)
             THEN /\ files' = {f \in files : f.path # PhyFile(ann, <<>>).path}
                                 \cup {PhyFile(ann, classified_units)}
                  /\ pc' = "return"
                  /\ error' = error
             ELSE /\ files' = files
                  /\ Raised(Raise("ValueError", PhyFolderText))
    /\ UNCHANGED <<entry, args, world, loadVars, pipeline, calculated_metrics, input_data,
                   label_conversion, pipeline_calls, predictions, probabilities,
                   classified_units, label_prediction, label_confidence, old_properties,
                   warnings, result>>

\* line 124 (and line 259 of auto_label_units).
Return ==
    /\ pc = "return"
    /\ result' = [kind |-> "dict", items |-> classified_units]
    /\ pc' = "returned"
    /\ UNCHANGED <<entry, args, world, loadVars, pipeline, predictVars, sortingVars, warnings,
                   error>>

Next ==
    \/ CallLoadModelFromFolder
    \/ CallAutoLabelUnits
    \/ LoadFolder
    \/ LoadSelectFile
    \/ LoadRead
    \/ CallConstruct
    \/ Construct
    \/ CallPredictLabels
    \/ GetInput
    \/ CheckParams
    \/ DefaultConversion
    \/ Predict
    \/ Convert
    \/ SetProperties
    \/ ExportToPhy
    \/ Return

Spec == Init /\ [][Next]_vars


\* ------------------------------------------------------------------ claims
PropertiesUnchanged ==
    label_prediction = old_properties[1] /\ label_confidence = old_properties[2]

\* The labels the pipeline's predict returned in this call.
RawPredictions == pipeline_calls[1].out

\* The index of the metrics table predict_labels worked on: the caller's, or
\* the one assembled from the analyzer.
InputIndex ==
    IF args.input_data.kind = "None" THEN calculated_metrics.index ELSE args.input_data.index

ValidAutoCall ==
    /\ entry = "auto_label_units"
    /\ world.observed
    /\ IsDir(args.model_folder_path)
    /\ Len(world.skops_files) = 1
    /\ Artifact(world.skops_files[1]).is_pipeline
    /\ Range(Artifact(world.skops_files[1]).feature_names_in_)
          \subseteq Range(world.quality_columns \o world.template_columns)
    /\ \E i \in DOMAIN world.index : world.index[i] \in world.unit_ids
    /\ world.info_file.kind = "nofile" \/ world.info_file.metric_params.kind = "present"
    /\ args.export_to_phy => (world.phy_folder # "None" /\ IsDir(world.phy_folder))

\* C1: auto_label_units, called with an existing model folder holding one
\* valid artifact, an analyzer whose metrics cover the model's features (and,
\* when export is asked for, a usable phy folder), does not end in an error
\* and returns the unit -> (label, confidence) mapping.
C1_AutoLabelUnitsReturns ==
    ValidAutoCall => /\ pc # "raised"
                     /\ pc = "returned" => result.kind = "dict"

LabelMismatchCase ==
    /\ pipeline_calls # <<>>
    /\ label_conversion.kind = "dict"
    /\ \E i \in DOMAIN RawPredictions :
          \A p \in label_conversion.dict : p[1] # RawPredictions[i]

\* C2: when a conversion mapping is in effect and some predicted label is not
\* one of its keys, predict_labels ends with the label-mismatch error, and
\* neither property is written, no file is written and nothing is returned.
C2_MismatchFailsBeforeWrite ==
    LabelMismatchCase =>
        /\ pc \in {"convert", "raised"}
        /\ pc = "raised" => error = Raise("ValueError", LabelMismatchText)
        /\ PropertiesUnchanged
        /\ files = {}
        /\ result = NoResult
C2_Witness ==
    /\ LabelMismatchCase
    /\ pc = "raised"
    /\ args.label_conversion.kind = "None"
    /\ old_properties[1].set

PropertiesWritten ==
    \/ pc \in {"export", "return", "returned"}
    \/ pc = "raised" /\ error.text = PhyFolderText

\* C3: with a conversion mapping whose keys cover the raw predictions, the
\* i-th unit of the table's index gets the label mapping[raw_i], in the
\* returned dict and in the "label_prediction" property alike.
C3_ConvertedInOrder ==
    (PropertiesWritten /\ label_conversion.kind = "dict") =>
        /\ label_prediction.set
        /\ Len(label_prediction.values) = Len(RawPredictions)
        /\ Len(RawPredictions) = Len(InputIndex)
        /\ \A i \in DOMAIN RawPredictions :
              /\ <<RawPredictions[i], label_prediction.values[i]>> \in label_conversion.dict
              /\ pc = "returned" =>
                    /\ Len(result.items) = Len(InputIndex)
                    /\ result.items[i][1] = InputIndex[i]
                    /\ result.items[i][2] = label_prediction.values[i]
C3_Witness ==
    /\ pc = "returned"
    /\ label_conversion.kind = "dict"
    /\ InputIndex = <<2, 1>>
    /\ RawPredictions = <<PyInt(0), PyInt(1)>>
    /\ label_prediction.values = <<PyStr("noise"), PyStr("good")>>

\* C4: the parameter-consistency check never blocks prediction: once
\* predict_labels holds its metrics table, it goes on to invoke the model,
\* whatever the metadata record.
C4_CheckNeverBlocks ==
    (pc = "raised" /\ input_data.kind = "DataFrame") => pipeline_calls # <<>>

Unparsable(e) ==
    e.kind # "dict" \/ \E i \in DOMAIN e.items : ~IsIntString(e.items[i][1])

\* C5: with no explicit conversion and a metadata label_conversion entry that
\* is absent or unparsable, no conversion is in effect after the default
\* step, no label-mismatch error is raised and the raw labels are returned.
C5_UnparsableGivesNoConversion ==
    ( /\ pc \notin {"get_input", "check_params", "default_conversion"}
      /\ args.label_conversion.kind = "None"
      /\ args.pipeline_info.kind = "dict"
      /\ Unparsable(args.pipeline_info.label_conversion) ) =>
        /\ label_conversion.kind = "None"
        /\ error.text # LabelMismatchText
        /\ pc = "returned" => label_prediction.values = RawPredictions

\* C6: with two or more '.skops' files and no model_name, the loader does not
\* raise, takes the first file found and warns with a text that names it.
C6_WarningNamesChosenFile ==
    Len(skops_files) > 1 =>
        /\ pc # "raised"
        /\ skops_file = skops_files[1]
        /\ \E i \in DOMAIN warnings : skops_file \in Range(warnings[i])

\* C7 as claimed: every table passed to the model holds exactly the required
\* feature columns in the model's order, and both operations get the same table.
C7_ExactColumnsAlways ==
    pipeline_calls # <<>> =>
        /\ pipeline_calls[1].X.columns = pipeline.feature_names_in_
        /\ pipeline_calls[2].X = pipeline_calls[1].X

\* C7 as amended: both operations get the same table; a table assembled from
\* the analyzer holds exactly the required feature columns in the model's
\* order, and a caller's table is passed with the caller's columns.
C7_ExactColumnsWhenAssembled ==
    pipeline_calls # <<>> =>
        /\ pipeline_calls[1].op = "predict" /\ pipeline_calls[2].op = "predict_proba"
        /\ pipeline_calls[2].X = pipeline_calls[1].X
        /\ args.input_data.kind = "None" =>
              pipeline_calls[1].X.columns = pipeline.feature_names_in_
        /\ args.input_data.kind # "None" =>
              pipeline_calls[1].X.columns = args.input_data.columns
C7_Witness ==
    /\ pipeline_calls # <<>>
    /\ args.input_data.kind = "None"
    /\ calculated_metrics.columns # pipeline.feature_names_in_

Assembled == calculated_metrics.kind = "DataFrame"
Required == Range(pipeline.feature_names_in_)
Available == Range(calculated_metrics.columns)

\* C8: in metric assembly, an empty restricted table gives the "no units
\* present" error whatever the columns; a non-empty one lacking required
\* columns gives the missing-metrics error naming exactly required minus
\* available; in both cases the model is not invoked and no property written.
C8_AssemblyErrors ==
    Assembled =>
        /\ Len(calculated_metrics.index) = 0 =>
              /\ pc = "raised"
              /\ error = Raise("ValueError", NoUnitsText)
              /\ pipeline_calls = <<>>
              /\ PropertiesUnchanged
        /\ (Len(calculated_metrics.index) > 0 /\ ~(Required \subseteq Available)) =>
              /\ pc = "raised"
              /\ error.text = MissingMetricsText
              /\ error.detail = {m \in Required : m \notin Available}
              /\ pipeline_calls = <<>>
              /\ PropertiesUnchanged
C8_Witness ==
    /\ Assembled
    /\ Len(calculated_metrics.index) > 0
    /\ Available = {"snr"}
    /\ error.detail = {"half_width"}

ExportDone == args.export_to_phy /\ pc \in {"return", "returned"}
ExportFailed == pc = "raised" /\ error.text = PhyFolderText

\* C9: an export with a missing annotation or one that names no directory
\* fails with the phy-folder error and writes no file; with an annotation
\* naming a directory, one file cluster_prediction.tsv is written there with
\* one row per classified unit.
C9_Export ==
    /\ ExportFailed => (files = {} /\ (sorting_path = "None" \/ ~IsDir(sorting_path)))
    /\ ExportDone =>
          /\ sorting_path # "None" /\ IsDir(sorting_path)
          /\ Cardinality(files) = 1
          /\ \A f \in files :
                /\ f.path = <<sorting_path, "cluster_prediction.tsv">>
                /\ Len(f.rows) = Len(input_data.index)
                /\ \A i \in DOMAIN f.rows : f.rows[i][1] = input_data.index[i]
    /\ files # {} => ExportDone
C9_Witness ==
    /\ ExportFailed
    /\ sorting_path = "missing"
    /\ files = {}

\* C10: the two properties are written before the export step: a failed
\* export raises and returns nothing yet leaves the new predictions in both
\* properties; a bad input type, no units, missing metrics or a label
\* mismatch leaves both properties as they were.
C10_WriteBeforeExport ==
    /\ (pc = "export" \/ ExportFailed) =>
          /\ label_prediction = Property(predictions)
          /\ label_confidence = Property(probabilities)
          /\ pipeline_calls # <<>>
    /\ ExportFailed => result = NoResult
    /\ (pc = "raised" /\ error.text \in {NotDataFrameText, NoUnitsText, MissingMetricsText,
                                          LabelMismatchText}) =>
          (PropertiesUnchanged /\ result = NoResult)
C10_Witness ==
    /\ ExportFailed
    /\ old_properties[1].set
    /\ label_prediction # old_properties[1]
    /\ Len(predictions) = 2

====
